---- MODULE Spec2Model ----
(***************************************************************************)
(* Model of the BoomSync peer session layer: the PeerService singleton of  *)
(* src/services/peerService.ts, run by every process, together with the    *)
(* message observer and the state broadcast of src/App.tsx.  The PeerJS    *)
(* transport is the environment: it opens peers, opens and closes          *)
(* connections, and carries messages FIFO per connection and direction.    *)
(***************************************************************************)
EXTENDS Integers, Sequences, FiniteSets, TLC

\* ------------------------------------------------------------------ bounds
MaxPeers == 3          \* Peer objects ever created (new Peer(...))
MaxConns == 2          \* DataConnections ever created (peer.connect(...))
MaxQueue == 2          \* messages in flight per connection and direction
MaxTime == 4           \* clock steps the environment may take
MaxTimeouts == 1       \* pending deleteRoom timeouts per process
MaxEdits == 2          \* local mutations of the application state, in all
MaxBeats == 1          \* heartbeat interval callbacks run, in all
MaxFaults == 1         \* connection ends the transport closes or fails, in all
MaxPacedTime == 6      \* clock steps when every step is preceded by a sweep

\* ------------------------------------------------------ program constants
HEARTBEAT_INTERVAL == 5000
CONNECTION_TIMEOUT == 15000

\* ------------------------------------------------------------- universes
Procs == {"p1", "p2", "p3"}
Codes == {"A", "B"}                    \* room codes a host may pin
AutoIds == <<"x1", "x2", "x3", "x4">>  \* identities the transport assigns
Snapshots == <<"S1", "S2", "S3", "S4">> \* the snapshots local mutations produce, in order
NoId == "none"                         \* null / undefined identity
NULL == 0                              \* null handle
NoTimer == <<0, "none">>               \* null interval handle
NoRef == <<0, "-">>

\* A message of types.ts SyncMessage, with every field present.
Msg(t, s, n, id) == [type |-> t, state |-> s, count |-> n, peerId |-> id]
SyncState(s) == Msg("SYNC_STATE", s, 0, NoId)
Heartbeat(id) == Msg("HEARTBEAT", "S0", 0, id)
ConnCount(n) == Msg("CONNECTION_COUNT", "S0", n, NoId)
RoomDeleted == Msg("ROOM_DELETED", "S0", 0, NoId)
RequestState == Msg("REQUEST_STATE", "S0", 0, NoId)
Explosion == Msg("EXPLOSION", "S0", 0, NoId)
NoMsg == Msg("NONE", "S0", 0, NoId)

VARIABLES
  peers,                \* Peer objects: <<[owner, id, st]>>
  peer,                 \* this.peer, a handle into peers or NULL
  conns,                \* DataConnections: <<[out, in, target, from, ost, ist, oq, iq]>>
  connections,          \* this.connections, in Map insertion order
  isHost,               \* this.isHost
  roomCode,             \* this.roomCode
  connectionCount,      \* this.connectionCount
  maxConnectionCount,   \* this.maxConnectionCount
  heartbeatInterval,    \* this.heartbeatInterval
  timeoutCheckInterval, \* this.timeoutCheckInterval
  timers,               \* the setInterval timers still running
  timeouts,             \* pending setTimeout(disconnect) of deleteRoom
  gameState,            \* App.tsx gameState (and gameStateRef.current)
  now,                  \* Date.now()
  used,                 \* how many edits and heartbeat callbacks have happened
  notified,             \* history: connection ends deleteRoom sent ROOM_DELETED on
  throwing,             \* connection ends whose send() throws
  last                  \* history: the last handler run and what it did

vars == <<peers, peer, conns, connections, isHost, roomCode, connectionCount,
          maxConnectionCount, heartbeatInterval, timeoutCheckInterval, timers,
          timeouts, gameState, now, used, notified, throwing, last>>

\* The whole state as one value, so that a handler that calls other handlers
\* (close() emits 'close' synchronously) is a composition of functions.
World ==
  [peers |-> peers, peer |-> peer, conns |-> conns, connections |-> connections,
   isHost |-> isHost, roomCode |-> roomCode, connectionCount |-> connectionCount,
   maxConnectionCount |-> maxConnectionCount,
   heartbeatInterval |-> heartbeatInterval,
   timeoutCheckInterval |-> timeoutCheckInterval, timers |-> timers,
   timeouts |-> timeouts, gameState |-> gameState, now |-> now, used |-> used,
   notified |-> notified, throwing |-> throwing, ev |-> <<>>, exc |-> FALSE]

Max(a, b) == IF a >= b THEN a ELSE b
Range(s) == {s[i] : i \in 1..Len(s)}

RECURSIVE FoldSeq(_, _, _)
FoldSeq(Op(_, _), w, s) ==
  IF s = <<>> THEN w ELSE FoldSeq(Op, Op(w, Head(s)), Tail(s))

SelectSeqIdx(s, Test(_)) ==
  LET F[i \in 0..Len(s)] ==
        IF i = 0 THEN <<>>
        ELSE IF Test(i) THEN Append(F[i - 1], i) ELSE F[i - 1]
  IN F[Len(s)]

\* --------------------------------------------------- connection endpoints
\* A DataConnection object is one end of a connection: <<c, "o">> is the end
\* that called peer.connect, <<c, "i">> the end the 'connection' event gave.
Other(ref) == <<ref[1], IF ref[2] = "o" THEN "i" ELSE "o">>
ConnSt(w, ref) == IF ref[2] = "o" THEN w.conns[ref[1]].ost ELSE w.conns[ref[1]].ist
ConnOpenFlag(w, ref) == ConnSt(w, ref) = "open"
ConnPeerHandle(w, ref) == IF ref[2] = "o" THEN w.conns[ref[1]].out ELSE w.conns[ref[1]].in
ConnPeer(w, ref) == IF ref[2] = "o" THEN w.conns[ref[1]].target ELSE w.conns[ref[1]].from
ConnOwner(w, ref) == w.peers[ConnPeerHandle(w, ref)].owner
ConnQueue(w, ref) == IF ref[2] = "o" THEN w.conns[ref[1]].oq ELSE w.conns[ref[1]].iq

SetConnSt(w, ref, st) ==
  IF ref[2] = "o"
  THEN [w EXCEPT !.conns[ref[1]].ost = st]
  ELSE [w EXCEPT !.conns[ref[1]].ist = st]

SetConnQueue(w, ref, q) ==
  IF ref[2] = "o"
  THEN [w EXCEPT !.conns[ref[1]].oq = q]
  ELSE [w EXCEPT !.conns[ref[1]].iq = q]

Event(k, ref, msg) == [k |-> k, ref |-> ref, msg |-> msg]
Log(w, k, ref, msg) ==
  IF w.exc THEN w ELSE [w EXCEPT !.ev = Append(@, Event(k, ref, msg))]

\* conn.send(msg): the message is in flight to the other end, unless that end
\* is already closed; or send throws, and an exception is on its way up the
\* call stack of the handler.
ConnSend(w, ref, msg) ==
  IF ref \in w.throwing
  THEN [Log(w, "throw", ref, msg) EXCEPT !.exc = TRUE]
  ELSE LET w1 == Log(w, "send", ref, msg)
       IN IF ConnSt(w1, Other(ref)) = "closed" THEN w1
          ELSE SetConnQueue(w1, Other(ref), Append(ConnQueue(w1, Other(ref)), msg))

\* ------------------------------------------------------------ the registry
\* this.connections: Map<string, ConnectionInfo> as a sequence in insertion
\* order; set() of a present key replaces the value in place.
RegKeys(reg) == {reg[i].peerId : i \in 1..Len(reg)}
RegHas(reg, key) == key \in RegKeys(reg)
RegIdx(reg, key) == CHOOSE i \in 1..Len(reg) : reg[i].peerId = key
RegGet(reg, key) == reg[RegIdx(reg, key)]
RegSet(reg, key, rec) ==
  IF RegHas(reg, key) THEN [reg EXCEPT ![RegIdx(reg, key)] = rec] ELSE Append(reg, rec)
RegDelete(reg, key) == SelectSeq(reg, LAMBDA r : r.peerId # key)
ConnectionInfo(ref, t, id) == [connection |-> ref, lastSeen |-> t, peerId |-> id]

\* --------------------------------------------------------- the sync core
\* peerService.ts broadcastConnectionCount
broadcastConnectionCount(w, p) ==
  LET countMsg == ConnCount(w.connectionCount[p])
  IN FoldSeq(LAMBDA v, r : IF ~v.exc /\ ConnOpenFlag(v, r.connection)
                           THEN ConnSend(v, r.connection, countMsg) ELSE v,
             w, w.connections[p])

\* updateConnectionCount that counts the registry without the process itself
updateConnectionCount_NoSelf(w, p) ==
  LET n == Len(w.connections[p])
      w1 == [w EXCEPT !.connectionCount[p] = n,
                      !.maxConnectionCount[p] = Max(@, n)]
      w2 == broadcastConnectionCount(w1, p)
  IN Log(w2, "countChange", NoRef, ConnCount(n))

\* peerService.ts updateConnectionCount
updateConnectionCount(w, p) ==
  LET n == Len(w.connections[p]) + 1
      w1 == [w EXCEPT !.connectionCount[p] = n,
                      !.maxConnectionCount[p] = Max(@, n)]
      w2 == broadcastConnectionCount(w1, p)
  IN Log(w2, "countChange", NoRef, ConnCount(n))

\* A close handler that leaves the recount to a later tick
handleIncomingClose_Lazy(w, p, ref) ==
  Log([w EXCEPT !.connections[p] = RegDelete(@, ConnPeer(w, ref))],
      "disconnected", ref, NoMsg)

\* handleIncomingConnection: conn.on('close')
handleIncomingClose(w, p, ref) ==
  LET w1 == [w EXCEPT !.connections[p] = RegDelete(@, ConnPeer(w, ref))]
      w2 == IF w1.isHost[p] THEN updateConnectionCount(w1, p) ELSE w1
  IN Log(w2, "disconnected", ref, NoMsg)

\* handleIncomingConnection: conn.on('error')
handleIncomingError(w, p, ref) ==
  LET w1 == [w EXCEPT !.connections[p] = RegDelete(@, ConnPeer(w, ref))]
  IN IF w1.isHost[p] THEN updateConnectionCount(w1, p) ELSE w1

\* handleOutgoingConnection: conn.on('close')
handleOutgoingClose(w, p, ref) ==
  LET w1 == [w EXCEPT !.connections[p] = RegDelete(@, ConnPeer(w, ref))]
      w2 == IF ~w1.isHost[p] THEN Log(w1, "roomDeleted", ref, NoMsg) ELSE w1
  IN Log(w2, "disconnected", ref, NoMsg)

\* handleOutgoingConnection: conn.on('error')
handleOutgoingError(w, p, ref) ==
  [w EXCEPT !.connections[p] = RegDelete(@, ConnPeer(w, ref))]

\* The transport emits 'close' on a connection end: the handler the service
\* registered on it runs.
EmitClose(w, ref) ==
  IF ref[2] = "i"
  THEN handleIncomingClose(w, ConnOwner(w, ref), ref)
  ELSE handleOutgoingClose(w, ConnOwner(w, ref), ref)

\* conn.close(): an open end becomes closed and emits 'close' before close()
\* returns; what was in flight to it is dropped.
ConnClose(w, ref) ==
  LET st == ConnSt(w, ref)
      w1 == Log(SetConnQueue(SetConnSt(w, ref, "closed"), ref, <<>>),
                IF st = "open" THEN "close" ELSE "closePending", ref, NoMsg)
  IN IF st = "open" THEN EmitClose(w1, ref) ELSE w1

\* peerService.ts send
send(w, p, msg) ==
  FoldSeq(LAMBDA v, r : IF ~v.exc /\ ConnOpenFlag(v, r.connection)
                        THEN ConnSend(v, r.connection, msg) ELSE v,
          w, w.connections[p])

\* relayMessage that does not exclude the sender
relayMessage_Echo(w, p, msg, excludePeerId) ==
  FoldSeq(LAMBDA v, r : IF ConnOpenFlag(v, r.connection)
                        THEN ConnSend(v, r.connection, msg) ELSE v,
          w, w.connections[p])

\* peerService.ts relayMessage
relayMessage(w, p, msg, excludePeerId) ==
  FoldSeq(LAMBDA v, r : IF /\ ~v.exc
                           /\ r.peerId # excludePeerId
                           /\ ConnOpenFlag(v, r.connection)
                        THEN ConnSend(v, r.connection, msg) ELSE v,
          w, w.connections[p])

\* peerService.ts startHeartbeat, called by the 'open' handler of Peer h
startHeartbeat(w, p, h) ==
  LET w1 == [w EXCEPT !.heartbeatInterval[p] = <<h, "heartbeat">>,
                      !.timers = @ \cup {<<h, "heartbeat">>}]
  IN IF w1.isHost[p]
     THEN [w1 EXCEPT !.timeoutCheckInterval[p] = <<h, "sweep">>,
                     !.timers = @ \cup {<<h, "sweep">>}]
     ELSE w1

\* peerService.ts stopHeartbeat
stopHeartbeat(w, p) ==
  [w EXCEPT !.timers = @ \ {w.heartbeatInterval[p], w.timeoutCheckInterval[p]},
            !.heartbeatInterval[p] = NoTimer,
            !.timeoutCheckInterval[p] = NoTimer]

\* this.peer?.id
PeerId(w, p) == IF w.peer[p] = NULL THEN NoId ELSE w.peers[w.peer[p]].id

\* Peer.destroy(): every connection end of the peer that is not closed yet is
\* closed, then the peer is gone.
PeerDestroy(w, h) ==
  LET mine == SelectSeqIdx(w.conns, LAMBDA c :
                 \/ w.conns[c].out = h /\ w.conns[c].ost # "closed"
                 \/ w.conns[c].in = h /\ w.conns[c].ist # "closed")
      w1 == FoldSeq(LAMBDA v, c : IF v.exc THEN v
                                  ELSE ConnClose(v, <<c, IF v.conns[c].out = h THEN "o" ELSE "i">>),
                    w, mine)
  IN IF w1.exc THEN w1
     ELSE [w1 EXCEPT !.peers[h].st = "destroyed", !.peers[h].id = NoId]

\* A disconnect that resets the counts to 1, self only
disconnect_CountSelf(w, p) ==
  LET w1 == stopHeartbeat(w, p)
      w2 == FoldSeq(LAMBDA v, r : IF ~v.exc /\ RegHas(v.connections[p], r.peerId)
                                  THEN ConnClose(v, RegGet(v.connections[p], r.peerId).connection)
                                  ELSE v,
                    w1, w1.connections[p])
      w3 == [w2 EXCEPT !.connections[p] = <<>>]
      w4 == IF w3.peer[p] # NULL THEN PeerDestroy(w3, w3.peer[p]) ELSE w3
  IN IF w2.exc THEN w2
     ELSE IF w4.exc THEN w4
     ELSE [w4 EXCEPT !.peer[p] = NULL, !.isHost[p] = TRUE, !.roomCode[p] = NoId,
                     !.connectionCount[p] = 1, !.maxConnectionCount[p] = 1]

\* peerService.ts disconnect
disconnect(w, p) ==
  LET w1 == stopHeartbeat(w, p)
      w2 == FoldSeq(LAMBDA v, r : IF ~v.exc /\ RegHas(v.connections[p], r.peerId)
                                  THEN ConnClose(v, RegGet(v.connections[p], r.peerId).connection)
                                  ELSE v,
                    w1, w1.connections[p])
      w3 == [w2 EXCEPT !.connections[p] = <<>>]
      w4 == IF w3.peer[p] # NULL THEN PeerDestroy(w3, w3.peer[p]) ELSE w3
  IN IF w2.exc THEN w2
     ELSE IF w4.exc THEN w4
     ELSE [w4 EXCEPT !.peer[p] = NULL, !.isHost[p] = TRUE, !.roomCode[p] = NoId,
                     !.connectionCount[p] = 0, !.maxConnectionCount[p] = 0]

\* An observer that merges a snapshot into the local state by symmetric
\* difference: a snapshot equal to the local state cancels it
AppOnMessage_Merge(w, p, msg) ==
  LET w1 == IF msg.type = "SYNC_STATE"
            THEN [w EXCEPT !.gameState[p] = IF @ = msg.state THEN "S0" ELSE msg.state]
            ELSE w
  IN IF msg.type = "REQUEST_STATE" /\ w1.isHost[p]
     THEN send(w1, p, SyncState(w.gameState[p]))
     ELSE w1

\* App.tsx: the observer registered with peerService.onMessage
AppOnMessage(w, p, msg) ==
  LET w1 == IF msg.type = "SYNC_STATE" THEN [w EXCEPT !.gameState[p] = msg.state] ELSE w
  IN IF msg.type = "REQUEST_STATE" /\ w1.isHost[p]
     THEN send(w1, p, SyncState(w.gameState[p]))
     ELSE w1

\* this.onMessageCallbacks.forEach(callback => callback(msg))
onMessageCallbacks(w, p, msg) ==
  IF w.exc THEN w ELSE AppOnMessage(Log(w, "callback", NoRef, msg), p, msg)

\* A HEARTBEAT branch that registers a sender it has no record of
onHeartbeat_Create(w, p, ref) ==
  [w EXCEPT !.connections[p] =
      RegSet(@, ConnPeer(w, ref), ConnectionInfo(ref, w.now, ConnPeer(w, ref)))]

\* setupConnection: conn.on('data'), HEARTBEAT branch
onHeartbeat(w, p, ref) ==
  IF RegHas(w.connections[p], ConnPeer(w, ref))
  THEN [w EXCEPT !.connections[p][RegIdx(w.connections[p], ConnPeer(w, ref))].lastSeen = w.now]
  ELSE w

\* A CONNECTION_COUNT branch that never lowers the cached count
onConnectionCount_Ratchet(w, p, msg) ==
  IF msg.type = "CONNECTION_COUNT" /\ ~w.isHost[p]
  THEN Log([w EXCEPT !.connectionCount[p] = Max(@, msg.count),
                     !.maxConnectionCount[p] = Max(@, msg.count)],
           "countChange", NoRef, msg)
  ELSE w

\* setupConnection: conn.on('data'), CONNECTION_COUNT branch
onConnectionCount(w, p, msg) ==
  IF msg.type = "CONNECTION_COUNT" /\ ~w.isHost[p]
  THEN Log([w EXCEPT !.connectionCount[p] = msg.count,
                     !.maxConnectionCount[p] = Max(@, msg.count)],
           "countChange", NoRef, msg)
  ELSE w

\* A data handler that returns after the CONNECTION_COUNT branch
setupConnection_CountConsumed(w, p, ref, msg) ==
  IF msg.type = "HEARTBEAT" THEN onHeartbeat(w, p, ref)
  ELSE IF msg.type = "CONNECTION_COUNT" THEN onConnectionCount(w, p, msg)
  ELSE IF msg.type = "ROOM_DELETED" /\ ~w.isHost[p]
       THEN disconnect(Log(w, "roomDeleted", ref, msg), p)
       ELSE LET w2 == IF msg.type = "SYNC_STATE" /\ w.isHost[p]
                      THEN relayMessage(w, p, msg, ConnPeer(w, ref))
                      ELSE w
            IN onMessageCallbacks(w2, p, msg)

\* setupConnection: conn.on('data')
setupConnection(w, p, ref, msg) ==
  IF msg.type = "HEARTBEAT" THEN onHeartbeat(w, p, ref)
  ELSE
    LET w1 == onConnectionCount(w, p, msg)
    IN IF msg.type = "ROOM_DELETED" /\ ~w1.isHost[p]
       THEN disconnect(Log(w1, "roomDeleted", ref, msg), p)
       ELSE LET w2 == IF msg.type = "SYNC_STATE" /\ w1.isHost[p]
                      THEN relayMessage(w1, p, msg, ConnPeer(w1, ref))
                      ELSE w1
            IN onMessageCallbacks(w2, p, msg)

\* ---------------------------------------------------------------- actions
QueuesOK(w) ==
  \A c \in 1..Len(w.conns) :
    Len(w.conns[c].oq) <= MaxQueue /\ Len(w.conns[c].iq) <= MaxQueue

\* The handler op of process p ran to completion and left the world w.
Commit(w, op, p, ref, msg) ==
  /\ QueuesOK(w)
  /\ peers' = w.peers
  /\ peer' = w.peer
  /\ conns' = w.conns
  /\ connections' = w.connections
  /\ isHost' = w.isHost
  /\ roomCode' = w.roomCode
  /\ connectionCount' = w.connectionCount
  /\ maxConnectionCount' = w.maxConnectionCount
  /\ heartbeatInterval' = w.heartbeatInterval
  /\ timeoutCheckInterval' = w.timeoutCheckInterval
  /\ timers' = w.timers
  /\ timeouts' = w.timeouts
  /\ gameState' = w.gameState
  /\ now' = w.now
  /\ used' = w.used
  /\ notified' = w.notified
  /\ throwing' = w.throwing
  /\ last' = [op |-> op, p |-> p, ref |-> ref, msg |-> msg, ev |-> w.ev, exc |-> w.exc]

Refs == {<<c, s>> : c \in 1..Len(conns), s \in {"o", "i"}}

Init ==
  /\ peers = <<>>
  /\ peer = [p \in Procs |-> NULL]
  /\ conns = <<>>
  /\ connections = [p \in Procs |-> <<>>]
  /\ isHost = [p \in Procs |-> TRUE]
  /\ roomCode = [p \in Procs |-> NoId]
  /\ connectionCount = [p \in Procs |-> 0]
  /\ maxConnectionCount = [p \in Procs |-> 0]
  /\ heartbeatInterval = [p \in Procs |-> NoTimer]
  /\ timeoutCheckInterval = [p \in Procs |-> NoTimer]
  /\ timers = {}
  /\ timeouts = [p \in Procs |-> 0]
  /\ gameState = [p \in Procs |-> "S0"]
  /\ now = 0
  /\ used = [edits |-> 0, beats |-> 0, faults |-> 0]
  /\ notified = {}
  /\ throwing = {}
  /\ last = [op |-> "new", p |-> "p1", ref |-> NoRef, msg |-> NoMsg, ev |-> <<>>,
             exc |-> FALSE]

\* peerService.ts init(id?): id = NoId is init() without an argument
init(p, id) ==
  /\ Len(peers) < MaxPeers
  /\ LET h == Len(peers) + 1
         w1 == [World EXCEPT !.isHost[p] = (id # NoId),
                             !.peers = Append(@, [owner |-> p, id |-> id, st |-> "pending"]),
                             !.peer[p] = h]
     IN Commit(w1, "init", p, NoRef, NoMsg)

\* init: this.peer.on('open'), for the Peer object h
onPeerOpen(w, p, h, peerId) ==
  LET w1 == [w EXCEPT !.roomCode[p] = peerId,
                      !.connectionCount[p] = 1,
                      !.maxConnectionCount[p] = 1]
  IN startHeartbeat(w1, p, h)

\* The transport grants Peer h its identity: the pinned one if it is free, a
\* fresh one if none was asked for.
PeerOpen(h) ==
  /\ peers[h].st = "pending"
  /\ LET p == peers[h].owner
         peerId == IF peers[h].id = NoId THEN AutoIds[h] ELSE peers[h].id
     IN /\ \A k \in 1..Len(peers) : peers[k].st = "open" => peers[k].id # peerId
        /\ Commit(onPeerOpen([World EXCEPT !.peers[h].st = "open", !.peers[h].id = peerId],
                             p, h, peerId),
                  "peerOpen", p, <<h, "-">>, NoMsg)

\* init: this.peer.on('error'): reject(err), nothing else
PeerError(h) ==
  /\ peers[h].st = "pending"
  /\ Commit([World EXCEPT !.peers[h].st = "failed"], "peerError", peers[h].owner,
            <<h, "-">>, NoMsg)

\* The Peer object that answers to an identity, NULL when there is none.
PeerOf(id) ==
  IF \E k \in 1..Len(peers) : peers[k].st = "open" /\ peers[k].id = id
  THEN CHOOSE k \in 1..Len(peers) : peers[k].st = "open" /\ peers[k].id = id
  ELSE NULL

\* peerService.ts connect(targetId)
connect(p, targetId) ==
  /\ peer[p] # NULL
  /\ Len(conns) < MaxConns
  /\ LET h == peer[p]
         conn == [out |-> h, in |-> IF peers[h].st = "open" THEN PeerOf(targetId) ELSE NULL,
                  target |-> targetId, from |-> peers[h].id,
                  ost |-> "new", ist |-> "new", oq |-> <<>>, iq |-> <<>>]
         w1 == [World EXCEPT !.isHost[p] = FALSE,
                             !.roomCode[p] = targetId,
                             !.conns = Append(@, conn)]
     IN Commit(w1, "connect", p, <<Len(conns) + 1, "o">>, NoMsg)

\* handleIncomingConnection: conn.on('open')
handleIncomingOpen(w, p, ref) ==
  LET w1 == [w EXCEPT !.connections[p] =
                 RegSet(@, ConnPeer(w, ref), ConnectionInfo(ref, w.now, ConnPeer(w, ref)))]
      w2 == IF w1.isHost[p] THEN updateConnectionCount(w1, p) ELSE w1
  IN Log(w2, "connected", ref, NoMsg)

\* An open handler that registers the connection but requests no state
handleOutgoingOpen_NoPull(w, p, ref) ==
  Log([w EXCEPT !.connections[p] =
          RegSet(@, ConnPeer(w, ref), ConnectionInfo(ref, w.now, ConnPeer(w, ref)))],
      "connected", ref, NoMsg)

\* handleOutgoingConnection: conn.on('open')
handleOutgoingOpen(w, p, ref) ==
  LET w1 == [w EXCEPT !.connections[p] =
                 RegSet(@, ConnPeer(w, ref), ConnectionInfo(ref, w.now, ConnPeer(w, ref)))]
      w2 == ConnSend(w1, ref, RequestState)
  IN Log(w2, "connected", ref, NoMsg)

\* The transport opens one end of a connection between two live peers.
ConnOpen(ref) ==
  /\ ref \in Refs
  /\ ConnSt(World, ref) = "new"
  /\ ConnSt(World, Other(ref)) # "closed"
  /\ conns[ref[1]].in # NULL
  /\ peers[conns[ref[1]].in].st = "open"
  /\ peers[conns[ref[1]].out].st = "open"
  /\ LET p == ConnOwner(World, ref)
         w1 == SetConnSt(World, ref, "open")
     IN Commit(IF ref[2] = "i" THEN handleIncomingOpen(w1, p, ref)
               ELSE handleOutgoingOpen(w1, p, ref),
               "connOpen", p, ref, NoMsg)

\* The transport delivers the oldest message in flight to an open end.
ConnData(ref) ==
  /\ ref \in Refs
  /\ ConnSt(World, ref) = "open"
  /\ ConnQueue(World, ref) # <<>>
  /\ LET p == ConnOwner(World, ref)
         msg == Head(ConnQueue(World, ref))
         w1 == SetConnQueue(World, ref, Tail(ConnQueue(World, ref)))
     IN Commit(setupConnection(w1, p, ref, msg), "data", p, ref, msg)

\* The transport closes an open end (the other end closed, or the link died).
ConnClosed(ref) ==
  /\ ref \in Refs
  /\ ConnSt(World, ref) = "open"
  /\ ConnSt(World, Other(ref)) = "closed" \/ used.faults < MaxFaults
  /\ LET p == ConnOwner(World, ref)
         w1 == SetConnQueue(SetConnSt(World, ref, "closed"), ref, <<>>)
         w2 == IF ConnSt(World, Other(ref)) = "closed" THEN w1
               ELSE [w1 EXCEPT !.used.faults = @ + 1]
     IN Commit(EmitClose(w2, ref), "connClose", p, ref, NoMsg)

\* The transport reports an error on an end; the end stays as it is.
ConnError(ref) ==
  /\ ref \in Refs
  /\ ConnSt(World, ref) = "open"
  /\ used.faults < MaxFaults
  /\ LET p == ConnOwner(World, ref)
         w1 == [World EXCEPT !.used.faults = @ + 1]
     IN Commit(IF ref[2] = "i" THEN handleIncomingError(w1, p, ref)
               ELSE handleOutgoingError(w1, p, ref),
               "connError", p, ref, NoMsg)

\* The transport gives up on an outbound connection whose target identity
\* does not exist.  What it emits on the connection is up to the transport:
\* 'error', 'close', or nothing (only the Peer's 'error', which init's handler
\* turns into a reject of a promise that is settled already).
ConnFail(ref) ==
  /\ ref \in Refs
  /\ ref[2] = "o"
  /\ ConnSt(World, ref) = "new"
  /\ conns[ref[1]].in = NULL
  /\ peers[conns[ref[1]].out].st = "open"
  /\ LET p == ConnOwner(World, ref)
         w1 == SetConnSt(World, ref, "closed")
     IN \E emitted \in {"error", "close", "none"} :
          Commit(CASE emitted = "error" -> handleOutgoingError(w1, p, ref)
                   [] emitted = "close" -> handleOutgoingClose(w1, p, ref)
                   [] OTHER -> w1,
                 "connFail", p, ref, NoMsg)

\* The data channel of an open end goes bad: connInfo.connection.send(msg)
\* throws on it from now on, while connection.open stays true.
ConnChoke(ref) ==
  /\ ref \in Refs
  /\ ConnSt(World, ref) = "open"
  /\ ref \notin throwing
  /\ used.faults < MaxFaults
  /\ Commit([World EXCEPT !.used.faults = @ + 1, !.throwing = @ \cup {ref}],
            "connChoke", ConnOwner(World, ref), ref, NoMsg)

\* startHeartbeat: the heartbeat interval callback
heartbeatTick(w, p) ==
  IF PeerId(w, p) = NoId THEN w ELSE send(w, p, Heartbeat(PeerId(w, p)))

HeartbeatTick(t) ==
  /\ t \in timers
  /\ t[2] = "heartbeat"
  /\ used.beats < MaxBeats
  /\ LET p == peers[t[1]].owner
     IN Commit(heartbeatTick([World EXCEPT !.used.beats = @ + 1], p),
               "heartbeat", p, NoRef, NoMsg)

\* A staleness test that lets one more interval pass
IsStale_Late(t, lastSeen) == t - lastSeen > CONNECTION_TIMEOUT + HEARTBEAT_INTERVAL

\* A staleness test that already fires at the timeout itself
IsStale_AtTimeout(t, lastSeen) == t - lastSeen >= CONNECTION_TIMEOUT

\* startHeartbeat: is a record stale at the sweep?
IsStale(t, lastSeen) == t - lastSeen > CONNECTION_TIMEOUT

\* A timeout check that recounts and broadcasts at every tick
timeoutCheck_AlwaysRecount(w, p) ==
  LET stale(r) == IsStale(w.now, r.lastSeen)
      w1 == FoldSeq(LAMBDA v, r :
                      IF /\ ~v.exc
                         /\ RegHas(v.connections[p], r.peerId)
                         /\ stale(RegGet(v.connections[p], r.peerId))
                      THEN LET v1 == ConnClose(v, RegGet(v.connections[p], r.peerId).connection)
                           IN IF v1.exc THEN v1
                              ELSE [v1 EXCEPT !.connections[p] = RegDelete(@, r.peerId)]
                      ELSE v,
                    w, w.connections[p])
  IN IF ~w1.exc THEN updateConnectionCount(w1, p) ELSE w1

\* startHeartbeat: the timeout check interval callback
timeoutCheck(w, p) ==
  LET stale(r) == IsStale(w.now, r.lastSeen)
      w1 == FoldSeq(LAMBDA v, r :
                      IF /\ ~v.exc
                         /\ RegHas(v.connections[p], r.peerId)
                         /\ stale(RegGet(v.connections[p], r.peerId))
                      THEN LET v1 == ConnClose(v, RegGet(v.connections[p], r.peerId).connection)
                           IN IF v1.exc THEN v1
                              ELSE [v1 EXCEPT !.connections[p] = RegDelete(@, r.peerId)]
                      ELSE v,
                    w, w.connections[p])
      hasRemovals == \E i \in 1..Len(w.connections[p]) : stale(w.connections[p][i])
  IN IF hasRemovals /\ ~w1.exc THEN updateConnectionCount(w1, p) ELSE w1

SweepTick(t) ==
  /\ t \in timers
  /\ t[2] = "sweep"
  /\ LET p == peers[t[1]].owner
     IN Commit(timeoutCheck(World, p), "sweep", p, NoRef, NoMsg)

\* App.tsx: a local mutation, setGameState(newState) with broadcastState(newState)
broadcastState(p, state) ==
  /\ used.edits < MaxEdits
  /\ Commit(send([World EXCEPT !.gameState[p] = state, !.used.edits = @ + 1],
                 p, SyncState(state)),
            "mutate", p, NoRef, SyncState(state))

\* App.tsx toggleTimer on a timer that is ready to boom:
\* peerService.send({ type: 'EXPLOSION' }), with no broadcastState.  The timer
\* reset that the sender and every receiver then apply locally is the same
\* function of the snapshot and is not part of the snapshot's identity here.
explode(p) ==
  /\ used.edits < MaxEdits
  /\ Commit(send([World EXCEPT !.used.edits = @ + 1], p, Explosion),
            "explode", p, NoRef, Explosion)

\* A deleteRoom without the role check
deleteRoom_AnyRole(p) ==
  /\ timeouts[p] < MaxTimeouts
  /\ LET w1 == send(World, p, RoomDeleted)
         sentOn == {w1.ev[i].ref : i \in {j \in 1..Len(w1.ev) : w1.ev[j].k = "send"}}
     IN Commit([w1 EXCEPT !.timeouts[p] = IF w1.exc THEN @ ELSE @ + 1,
                          !.notified = @ \cup sentOn],
               "deleteRoom", p, NoRef, NoMsg)

\* peerService.ts deleteRoom: returns at once unless the role is Host
deleteRoom(p) ==
  IF ~isHost[p]
  THEN Commit(World, "deleteRoom", p, NoRef, NoMsg)
  ELSE /\ timeouts[p] < MaxTimeouts
       /\ LET w1 == send(World, p, RoomDeleted)
              sentOn == {w1.ev[i].ref : i \in {j \in 1..Len(w1.ev) : w1.ev[j].k = "send"}}
          IN Commit([w1 EXCEPT !.timeouts[p] = IF w1.exc THEN @ ELSE @ + 1,
                               !.notified = @ \cup sentOn],
                    "deleteRoom", p, NoRef, NoMsg)

\* deleteRoom: the setTimeout callback, 100 ms later
deleteRoomTimeout(p) ==
  /\ timeouts[p] > 0
  /\ Commit(disconnect([World EXCEPT !.timeouts[p] = @ - 1], p),
            "deleteRoomTimeout", p, NoRef, NoMsg)

\* peerService.ts disconnect(), called by the application
Disconnect(p) ==
  Commit(disconnect(World, p), "disconnect", p, NoRef, NoMsg)

\* Time passes, one heartbeat interval at a time.  Only differences
\* now - lastSeen are ever read, so the clock starts when the first record is
\* registered; and what is in flight is delivered well within an interval.
ClockTick ==
  /\ now < MaxTime * HEARTBEAT_INTERVAL
  /\ \E p \in Procs : connections[p] # <<>>
  /\ \A c \in 1..Len(conns) : conns[c].oq = <<>> /\ conns[c].iq = <<>>
  /\ Commit([World EXCEPT !.now = @ + HEARTBEAT_INTERVAL], "tick", "p1", NoRef, NoMsg)

\* ------------------------------------------------------- specifications
Host == "p1"
Joiners == {"p2", "p3"}

\* A room: p1 creates room "A", p2 and p3 join it.
HostInit == peer[Host] = NULL /\ init(Host, "A")
RoomExists == peer[Host] # NULL /\ peers[peer[Host]].st = "open"
JoinerInit ==
  \E p \in Joiners :
    /\ RoomExists
    /\ peer[p] = NULL
    /\ p = "p3" => peer["p2"] # NULL
    /\ init(p, NoId)
JoinerConnect ==
  \E p \in Joiners : peer[p] # NULL /\ peers[peer[p]].st = "open" /\ connect(p, "A")
PeerOpens == \E h \in 1..Len(peers) : PeerOpen(h)
ConnOpens == \E ref \in Refs : ConnOpen(ref)
ConnDelivers == \E ref \in Refs : ConnData(ref)
ConnCloses == \E ref \in Refs : ConnClosed(ref)
ConnErrors == \E ref \in Refs : ConnError(ref)
HeartbeatTicks == \E t \in timers : HeartbeatTick(t)
SweepTicks == \E t \in timers : SweepTick(t)
Mutates == \E p \in Procs : peer[p] # NULL /\ broadcastState(p, Snapshots[used.edits + 1])
HostDeletesRoom == deleteRoom(Host)
DeleteRoomTimeouts == \E p \in Procs : deleteRoomTimeout(p)
JoinerDisconnects == \E p \in Joiners : peer[p] # NULL /\ Disconnect(p)

Next ==
  \/ HostInit
  \/ JoinerInit
  \/ JoinerConnect
  \/ PeerOpens
  \/ ConnOpens
  \/ ConnDelivers
  \/ Mutates

\* The room in use: joiners arrive, every participant edits the shared state.
Spec == Init /\ [][Next]_vars

NextChurn ==
  \/ HostInit
  \/ JoinerInit
  \/ JoinerConnect
  \/ PeerOpens
  \/ ConnOpens
  \/ ConnDelivers
  \/ ConnCloses
  \/ ConnErrors
  \/ SweepTicks
  \/ ClockTick

\* The room under churn: connections close, fail and go stale.
SpecChurn == Init /\ [][NextChurn]_vars

NextLive ==
  \/ HostInit
  \/ JoinerInit
  \/ JoinerConnect
  \/ PeerOpens
  \/ ConnOpens
  \/ ConnDelivers
  \/ HeartbeatTicks
  \/ ConnErrors
  \/ SweepTicks
  \/ ClockTick

\* The liveness monitor of the room: heartbeats, the clock, the stale sweep,
\* and connections the transport reports an error on.
SpecLive == Init /\ [][NextLive]_vars

\* One service driven through its whole interface in any order: p1 calls
\* init("A"), init(), connect("B"), deleteRoom() and disconnect() whenever it
\* likes, while p2 hosts room "B" and joins room "A".
AnyInit == \E id \in {"A", NoId} : init("p1", id)
AnyConnect == connect("p1", "B")
AnyDeleteRoom == peer["p1"] # NULL /\ deleteRoom("p1")
AnyDisconnect == peer["p1"] # NULL /\ Disconnect("p1")
OtherInit == peer["p2"] = NULL /\ init("p2", "B")
OtherConnect ==
  /\ peer["p2"] # NULL
  /\ peers[peer["p2"]].st = "open"
  /\ connect("p2", "A")

NextLife ==
  \/ AnyInit
  \/ AnyConnect
  \/ AnyDeleteRoom
  \/ AnyDisconnect
  \/ OtherInit
  \/ OtherConnect
  \/ PeerOpens
  \/ ConnOpens
  \/ ConnDelivers
  \/ DeleteRoomTimeouts

SpecLife == Init /\ [][NextLife]_vars

\* A Host that joins another room without leaving its own (SyncModal
\* handleJoin reuses the Peer it has): p1 hosts room "A" with guest p3, p2
\* hosts room "B", and p1 calls connect("B").
OtherHostInit == peer["p2"] = NULL /\ init("p2", "B")
GuestInit == RoomExists /\ peer["p3"] = NULL /\ init("p3", NoId)
GuestConnect ==
  /\ peer["p3"] # NULL
  /\ peers[peer["p3"]].st = "open"
  /\ \A c \in 1..Len(conns) : conns[c].out # peer["p3"]
  /\ connect("p3", "A")
HostJoinsOther ==
  /\ RoomExists
  /\ peer["p2"] # NULL
  /\ peers[peer["p2"]].st = "open"
  /\ \A c \in 1..Len(conns) : conns[c].out # peer[Host]
  /\ connect(Host, "B")

NextSwitch ==
  \/ HostInit
  \/ OtherHostInit
  \/ GuestInit
  \/ GuestConnect
  \/ HostJoinsOther
  \/ PeerOpens
  \/ ConnOpens
  \/ ConnDelivers
  \/ SweepTicks
  \/ ClockTick

SpecSwitch == Init /\ [][NextSwitch]_vars

\* Failures of the transport while a session is being set up: a Peer that
\* gets no identity, a connection to a room code nobody holds.
PeerErrors == \E h \in 1..Len(peers) : PeerError(h)
ConnFails == \E ref \in Refs : ConnFail(ref)

NextFail ==
  \/ AnyInit
  \/ AnyConnect
  \/ OtherInit
  \/ PeerOpens
  \/ PeerErrors
  \/ ConnOpens
  \/ ConnFails
  \/ ConnDelivers

SpecFail == Init /\ [][NextFail]_vars

\* The room with fire-once signals: any participant's timer may explode.
Explodes == \E p \in Procs : peer[p] # NULL /\ explode(p)

NextSignal ==
  \/ HostInit
  \/ JoinerInit
  \/ JoinerConnect
  \/ PeerOpens
  \/ ConnOpens
  \/ ConnDelivers
  \/ Explodes

SpecSignal == Init /\ [][NextSignal]_vars

\* Joining a room whose Host has edited its snapshot before anybody joined,
\* with no mutation afterwards.
HostMutatesAlone ==
  /\ RoomExists
  /\ conns = <<>>
  /\ broadcastState(Host, Snapshots[used.edits + 1])

NextJoin ==
  \/ HostInit
  \/ HostMutatesAlone
  \/ JoinerInit
  \/ JoinerConnect
  \/ PeerOpens
  \/ ConnOpens
  \/ ConnDelivers

SpecJoin == Init /\ [][NextJoin]_vars

\* The room with a connection whose send() throws.
ConnChokes == \E ref \in Refs : ConnChoke(ref)

NextThrow ==
  \/ HostInit
  \/ JoinerInit
  \/ JoinerConnect
  \/ PeerOpens
  \/ ConnOpens
  \/ ConnDelivers
  \/ ConnChokes
  \/ HeartbeatTicks

SpecThrow == Init /\ [][NextThrow]_vars

\* A Host nobody joins: other processes start their Peers and never connect,
\* while the Host's timers fire, the clock runs and the Host edits its state.
SoloClockTick ==
  /\ RoomExists
  /\ now < MaxTime * HEARTBEAT_INTERVAL
  /\ Commit([World EXCEPT !.now = @ + HEARTBEAT_INTERVAL], "tick", Host, NoRef, NoMsg)

NextSolo ==
  \/ HostInit
  \/ HostMutatesAlone
  \/ JoinerInit
  \/ PeerOpens
  \/ HeartbeatTicks
  \/ SweepTicks
  \/ SoloClockTick

SpecSolo == Init /\ [][NextSolo]_vars

\* The room with its timers on schedule: the Host's sweep interval callback
\* runs once in every HEARTBEAT_INTERVAL, so the clock moves on by one
\* interval only when that sweep has just run.
PacedClockTick ==
  /\ last.op = "sweep"
  /\ last.p = Host
  /\ now < MaxPacedTime * HEARTBEAT_INTERVAL
  /\ \E p \in Procs : connections[p] # <<>>
  /\ \A c \in 1..Len(conns) : conns[c].oq = <<>> /\ conns[c].iq = <<>>
  /\ Commit([World EXCEPT !.now = @ + HEARTBEAT_INTERVAL], "tick", Host, NoRef, NoMsg)

NextPaced ==
  \/ HostInit
  \/ JoinerInit
  \/ JoinerConnect
  \/ PeerOpens
  \/ ConnOpens
  \/ ConnDelivers
  \/ HeartbeatTicks
  \/ SweepTicks
  \/ PacedClockTick

SpecPaced == Init /\ [][NextPaced]_vars

\* ----------------------------------------------------------------- claims
SendCount(ev) == Cardinality({i \in 1..Len(ev) : ev[i].k = "send"})
SendsOn(ev, ref, msg) ==
  Cardinality({i \in 1..Len(ev) : ev[i].k = "send" /\ ev[i].ref = ref /\ ev[i].msg = msg})
CallbackCount(ev, msg) ==
  Cardinality({i \in 1..Len(ev) : ev[i].k = "callback" /\ ev[i].msg = msg})
Closed(ev) ==
  {ev[i].ref : i \in {j \in 1..Len(ev) : ev[j].k \in {"close", "closePending"}}}
Hosting(p) == isHost[p] /\ roomCode[p] # NoId

\* The last handler changed the registry of an accepting process: an inbound
\* connection opened, closed or failed, or the sweep removed a record.
RegistryMutation ==
  \/ last.op \in {"connOpen", "connClose", "connError"} /\ last.ref[2] = "i"
  \/ last.op = "sweep" /\ Closed(last.ev) # {}

\* C1: at a Host with a room, right after an inbound connection opened, closed
\* or failed, or the sweep removed a record (and after the broadcast that
\* follows), connectionCount is the number of registry records plus 1.
C1_CountInvariant ==
  (RegistryMutation /\ Hosting(last.p))
    => connectionCount[last.p] = Len(connections[last.p]) + 1

\* A sweep at a Host evicted one joiner and another one stays registered.
C1_Witness ==
  /\ last.op = "sweep"
  /\ Closed(last.ev) # {}
  /\ Hosting(last.p)
  /\ Len(connections[last.p]) = 1
  /\ connectionCount[last.p] = 2

\* C2: a Host that receives SYNC_STATE from joiner J sends that message exactly
\* once on every registered open connection of another peer and on no
\* connection of J; a Joiner that receives SYNC_STATE sends nothing.
C2_RelayExclusion ==
  (last.op = "data" /\ last.msg.type = "SYNC_STATE") =>
    LET p == last.p
        J == ConnPeer(World, last.ref)
        others == {i \in 1..Len(connections[p]) :
                     /\ connections[p][i].peerId # J
                     /\ ConnOpenFlag(World, connections[p][i].connection)}
    IN IF isHost[p]
       THEN /\ \A i \in others : SendsOn(last.ev, connections[p][i].connection, last.msg) = 1
            /\ SendCount(last.ev) = Cardinality(others)
       ELSE SendCount(last.ev) = 0

\* A Host relayed a SYNC_STATE of one registered joiner to another joiner.
C2_Witness ==
  /\ last.op = "data"
  /\ last.msg.type = "SYNC_STATE"
  /\ isHost[last.p]
  /\ RegHas(connections[last.p], ConnPeer(World, last.ref))
  /\ SendCount(last.ev) = 1

\* C3: a Host that receives REQUEST_STATE from a joiner sends its snapshot to
\* the requester and sends nothing to any other joiner.
C3_UnicastPull ==
  (last.op = "data" /\ last.msg.type = "REQUEST_STATE" /\ isHost[last.p]) =>
    \A i \in 1..Len(last.ev) :
      last.ev[i].k = "send" =>
        ConnPeer(World, last.ev[i].ref) = ConnPeer(World, last.ref)

C5_HeartbeatNonLeakage ==
  [][(last'.op = "data" /\ last'.msg.type = "HEARTBEAT") =>
       LET p == last'.p
           ref == last'.ref
           key == ConnPeer(World, ref)
       IN /\ last'.ev = <<>>
          /\ UNCHANGED <<peers, peer, isHost, roomCode, connectionCount,
                         maxConnectionCount, heartbeatInterval, timeoutCheckInterval,
                         timers, timeouts, gameState, now, used, notified, throwing>>
          /\ conns' = SetConnQueue(World, ref, Tail(ConnQueue(World, ref))).conns
          /\ \A q \in Procs :
               /\ Len(connections'[q]) = Len(connections[q])
               /\ \A i \in 1..Len(connections[q]) :
                    /\ connections'[q][i].peerId = connections[q][i].peerId
                    /\ connections'[q][i].connection = connections[q][i].connection
                    /\ connections'[q][i].lastSeen =
                         IF q = p /\ connections[q][i].peerId = key
                         THEN now ELSE connections[q][i].lastSeen
    ]_vars

\* A heartbeat arrived after the clock moved and refreshed its sender's record.
C5_Witness ==
  /\ last.op = "data"
  /\ last.msg.type = "HEARTBEAT"
  /\ now > 0
  /\ RegHas(connections[last.p], ConnPeer(World, last.ref))
  /\ RegGet(connections[last.p], ConnPeer(World, last.ref)).lastSeen = now

\* A heartbeat arrived on a connection whose record an error had removed.
C5_WitnessAbsent ==
  /\ last.op = "data"
  /\ last.msg.type = "HEARTBEAT"
  /\ ~RegHas(connections[last.p], ConnPeer(World, last.ref))

\* C6: every open inbound (joiner) connection a Host closes in the teardown
\* that follows deleteRoom() had ROOM_DELETED sent on it by that deleteRoom().
C6_DeletionOrdering ==
  last.op = "deleteRoomTimeout" =>
    \A i \in 1..Len(last.ev) :
      LET ref == last.ev[i].ref
      IN (last.ev[i].k = "close" /\ ref[2] = "i" /\ ConnOwner(World, ref) = last.p)
           => ref \in notified

\* Every message in flight has been delivered.
AllDelivered ==
  \A c \in 1..Len(conns) : conns[c].oq = <<>> /\ conns[c].iq = <<>>

\* Joiner j holds an open registered connection that the Host has registered too.
Connected(j) ==
  \E i \in 1..Len(connections[j]) :
    LET ref == connections[j][i].connection
    IN /\ ref[2] = "o"
       /\ ConnOpenFlag(World, ref)
       /\ ConnOpenFlag(World, Other(ref))
       /\ \E k \in 1..Len(connections[Host]) : connections[Host][k].connection = Other(ref)

\* C7: once every message in flight has been delivered, the Host and every
\* connected Joiner hold the same snapshot.
C7_Convergence ==
  AllDelivered => \A j \in Joiners : Connected(j) => gameState[j] = gameState[Host]

\* C8: the sweep never closes or removes a record while now - lastSeen is at
\* most CONNECTION_TIMEOUT.
C8_NoEarlyEviction ==
  [][last'.op = "sweep" =>
       \A i \in 1..Len(connections[last'.p]) :
         LET r == connections[last'.p][i]
         IN now - r.lastSeen <= CONNECTION_TIMEOUT =>
              /\ r \in Range(connections'[last'.p])
              /\ r.connection \notin Closed(last'.ev)
              /\ ConnSt(World, r.connection)
                   = ConnSt([conns |-> conns'], r.connection)
    ]_vars

\* A sweep evicted one record and kept a record seen exactly
\* CONNECTION_TIMEOUT ago.
C8_Witness ==
  /\ last.op = "sweep"
  /\ Closed(last.ev) # {}
  /\ \E i \in 1..Len(connections[last.p]) :
       now - connections[last.p][i].lastSeen = CONNECTION_TIMEOUT

\* C9: when disconnect() returns, no heartbeat or sweep timer of the process
\* runs, every connection that was registered is closed, the registry is
\* empty, and the role is Host with no room code.
C9_TeardownComplete ==
  [][last'.op \in {"disconnect", "deleteRoomTimeout"} =>
       LET p == last'.p
       IN /\ {t \in timers' : peers'[t[1]].owner = p} = {}
          /\ \A i \in 1..Len(connections[p]) :
               ConnSt([conns |-> conns'], connections[p][i].connection) = "closed"
          /\ connections'[p] = <<>>
          /\ isHost'[p]
          /\ roomCode'[p] = NoId
    ]_vars

\* C10: a process is Hosting only with an open Peer of its own whose identity
\* is its room code.
C10_RoleExclusivity ==
  \A p \in Procs :
    Hosting(p) =>
      /\ peer[p] # NULL
      /\ peers[peer[p]].st = "open"
      /\ roomCode[p] = peers[peer[p]].id

\* The open registered connections of process p.
OpenRecords(p) ==
  {connections[p][i].connection : i \in
     {k \in 1..Len(connections[p]) : ConnOpenFlag(World, connections[p][k].connection)}}

\* C11: when an inbound connection closes at a Host, that close handler sets
\* connectionCount to the new registry size plus 1 and sends CONNECTION_COUNT
\* with that value once on every remaining open registered connection.
C11_ImmediateRecount ==
  (last.op = "connClose" /\ last.ref[2] = "i" /\ isHost[last.p]) =>
    LET p == last.p
        n == Len(connections[p]) + 1
    IN /\ connectionCount[p] = n
       /\ \A ref \in OpenRecords(p) : SendsOn(last.ev, ref, ConnCount(n)) = 1
       /\ SendCount(last.ev) = Cardinality(OpenRecords(p))

\* Two joiners were registered (count 3), one closed, and the remaining one
\* was sent CONNECTION_COUNT(2).
C11_Witness ==
  /\ last.op = "connClose"
  /\ last.ref[2] = "i"
  /\ Hosting(last.p)
  /\ maxConnectionCount[last.p] = 3
  /\ connectionCount[last.p] = 2
  /\ \E ref \in OpenRecords(last.p) : SendsOn(last.ev, ref, ConnCount(2)) = 1

\* C12: while a process stays in the Joiner role, connectionCount changes only
\* by storing the count of a CONNECTION_COUNT message it received, or by the
\* reset of init's 'open' handler.
C12_JoinerNeverComputes ==
  [][\A p \in Procs :
       (~isHost[p] /\ ~isHost'[p] /\ connectionCount'[p] # connectionCount[p]) =>
         \/ /\ last'.op = "data"
            /\ last'.p = p
            /\ last'.msg.type = "CONNECTION_COUNT"
            /\ connectionCount'[p] = last'.msg.count
         \/ last'.op = "peerOpen" /\ last'.p = p
    ]_vars

\* How often the handler invoked the room-deleted callback.
RoomDeletedCount(ev) == Cardinality({i \in 1..Len(ev) : ev[i].k = "roomDeleted"})

\* C13: when the registered connection of a Joiner to its Host closes
\* unexpectedly, the Joiner ends as it does after ROOM_DELETED: room-deleted
\* callback invoked, registry empty, role Host, no room code, heartbeat
\* timer stopped.
C13_CloseEqualsDeletion ==
  [][(/\ last'.op = "connClose"
      /\ last'.ref[2] = "o"
      /\ ~isHost[last'.p]
      /\ \E i \in 1..Len(connections[last'.p]) :
           connections[last'.p][i].connection = last'.ref) =>
       LET p == last'.p
       IN /\ RoomDeletedCount(last'.ev) >= 1
          /\ connections'[p] = <<>>
          /\ isHost'[p]
          /\ roomCode'[p] = NoId
          /\ heartbeatInterval'[p] = NoTimer
    ]_vars

\* C16: when the connection of a Joiner to its Host raises an error, the
\* record is removed and the room-deleted callback is invoked, as for a close.
C16_ErrorPromotes ==
  (last.op = "connError" /\ last.ref[2] = "o" /\ ~isHost[last.p]) =>
    /\ ~RegHas(connections[last.p], ConnPeer(World, last.ref))
    /\ RoomDeletedCount(last.ev) = 1

\* C14: when the outbound connection requested by connect(target) fails
\* before it opens, the session does not keep the target as its room code: it
\* is Idle again, role Host and no room code.
C14_JoinFailureIdle ==
  (last.op = "connFail" /\ roomCode[last.p] = conns[last.ref[1]].target)
    => (isHost[last.p] /\ roomCode[last.p] = NoId)

\* C15: when identity acquisition fails for a session that was Idle, the
\* session is Idle afterwards: role Host, no room code, connection count not
\* set to 1, no heartbeat or sweep timer.
C15_InitFailureIdle ==
  [][(/\ last'.op = "peerError"
      /\ peer[last'.p] = last'.ref[1]
      /\ roomCode[last'.p] = NoId
      /\ connectionCount[last'.p] = 0
      /\ connections[last'.p] = <<>>) =>
       LET p == last'.p
       IN /\ isHost'[p]
          /\ roomCode'[p] = NoId
          /\ connectionCount'[p] # 1
          /\ heartbeatInterval'[p] = NoTimer
          /\ timeoutCheckInterval'[p] = NoTimer
          /\ {t \in timers' : peers'[t[1]].owner = p} = {}
    ]_vars

\* C17: a Host that receives EXPLOSION from joiner J passes it to its
\* observers and sends it once on every registered open connection of another
\* peer, and on none of J.
C17_SignalRelay ==
  (last.op = "data" /\ last.msg.type = "EXPLOSION" /\ isHost[last.p]) =>
    LET p == last.p
        J == ConnPeer(World, last.ref)
        others == {i \in 1..Len(connections[p]) :
                     /\ connections[p][i].peerId # J
                     /\ ConnOpenFlag(World, connections[p][i].connection)}
    IN /\ CallbackCount(last.ev, last.msg) = 1
       /\ \A i \in others : SendsOn(last.ev, connections[p][i].connection, last.msg) = 1
       /\ SendCount(last.ev) = Cardinality(others)

\* C18: when the outbound connection of a Joiner opens, REQUEST_STATE is the
\* first and only message then in flight on it; the Host answers a
\* REQUEST_STATE with its current snapshot to the requesting peer; and, no
\* mutation happening meanwhile, a Joiner that has been delivered a SYNC_STATE
\* holds the snapshot of the Host.
C18_CatchUp ==
  /\ (last.op = "connOpen" /\ last.ref[2] = "o") =>
       /\ ConnQueue(World, Other(last.ref)) = <<RequestState>>
       /\ SendsOn(last.ev, last.ref, RequestState) = 1
       /\ SendCount(last.ev) = 1
  /\ (last.op = "data" /\ last.msg.type = "REQUEST_STATE" /\ last.p = Host) =>
       \E i \in 1..Len(last.ev) :
         /\ last.ev[i].k = "send"
         /\ last.ev[i].msg = SyncState(gameState[Host])
         /\ ConnPeer(World, last.ev[i].ref) = ConnPeer(World, last.ref)
  /\ (last.op = "data" /\ last.msg.type = "SYNC_STATE" /\ last.p \in Joiners) =>
       gameState[last.p] = gameState[Host]

\* The Host held S1 when a Joiner joined, and the Joiner holds S1 once the
\* reply to its REQUEST_STATE has been delivered.
C18_Witness ==
  /\ last.op = "data"
  /\ last.msg = SyncState("S1")
  /\ last.p \in Joiners
  /\ gameState[Host] = "S1"
  /\ gameState[last.p] = "S1"

\* C19: a process in the Joiner role has at most one registry record, and
\* that record is its outbound connection to the room it joined.
C19_JoinerSingleConnection ==
  \A p \in Procs :
    ~isHost[p] =>
      /\ Len(connections[p]) <= 1
      /\ \A i \in 1..Len(connections[p]) :
           /\ connections[p][i].connection[2] = "o"
           /\ connections[p][i].peerId = roomCode[p]

\* C20: when send throws on one open connection during a fan-out, the
\* exception does not leave the handler and every other open registered
\* connection is still sent the message.
C20_SendFailuresSwallowed ==
  \A i \in 1..Len(last.ev) :
    last.ev[i].k = "throw" =>
      /\ ~last.exc
      /\ \A ref \in OpenRecords(last.p) \ throwing :
           SendsOn(last.ev, ref, last.ev[i].msg) = 1

\* C21: the room-deleted callback is never invoked by a handler of a process
\* whose role is Host, whatever it receives and whichever connection closes;
\* and deleteRoom() called in the Joiner role sends nothing, schedules no
\* disconnect and changes no state.
C21_OnlyHostDeletes ==
  [][/\ RoomDeletedCount(last'.ev) > 0 => ~isHost[last'.p]
     /\ (last'.op = "deleteRoom" /\ ~isHost[last'.p]) =>
          /\ last'.ev = <<>>
          /\ UNCHANGED <<peers, peer, conns, connections, isHost, roomCode,
                         connectionCount, maxConnectionCount, heartbeatInterval,
                         timeoutCheckInterval, timers, timeouts, gameState, now,
                         used, notified, throwing>>
    ]_vars

\* A Joiner with an open registered connection to its room called deleteRoom().
C21_Witness ==
  /\ last.op = "deleteRoom"
  /\ ~isHost[last.p]
  /\ OpenRecords(last.p) # {}
  /\ timeouts[last.p] = 0

\* A process in the Host role received ROOM_DELETED and only passed it on to
\* its observers.
C21_WitnessHost ==
  /\ last.op = "data"
  /\ last.msg = RoomDeleted
  /\ isHost[last.p]
  /\ RoomDeletedCount(last.ev) = 0

\* C22: a received SYNC_STATE replaces the whole application state of the
\* receiver with its snapshot and touches no other process's state; applied a
\* second time it leaves the state as the first application left it.
C22_ReplaceIdempotent ==
  [][(last'.op = "data" /\ last'.msg.type = "SYNC_STATE") =>
       LET p == last'.p
           once == AppOnMessage(World, p, last'.msg)
           twice == AppOnMessage(once, p, last'.msg)
       IN /\ gameState'[p] = last'.msg.state
          /\ \A q \in Procs \ {p} : gameState'[q] = gameState[q]
          /\ once.gameState[p] = gameState'[p]
          /\ twice.gameState = once.gameState
          /\ gameState[p] = last'.msg.state => gameState'[p] = gameState[p]
    ]_vars

\* Joiner p2 opened two connections to the room while the Host held S1; each
\* sent REQUEST_STATE and each was answered with SYNC_STATE(S1), and p2 has
\* just applied the last of these answers.
C22_Witness ==
  /\ last.op = "data"
  /\ last.msg = SyncState("S1")
  /\ last.p = "p2"
  /\ Len(conns) = 2
  /\ \A c \in 1..Len(conns) :
       /\ conns[c].out = peer["p2"]
       /\ conns[c].ost = "open"
       /\ conns[c].ist = "open"
  /\ AllDelivered
  /\ gameState[Host] = "S1"
  /\ gameState["p2"] = "S1"

\* The last handler ran disconnect() of its process to the end.
RanDisconnect(l) ==
  /\ ~l.exc
  /\ \/ l.op \in {"disconnect", "deleteRoomTimeout"}
     \/ l.op = "data" /\ RoomDeletedCount(l.ev) > 0

\* C23 as stated: connectionCount is at least 1 in every reachable state.
C23_AtLeastOne == \A p \in Procs : connectionCount[p] >= 1

\* C23, amended: connectionCount is 0 in the initial idle state and whenever
\* disconnect() has returned; nothing but disconnect() makes it 0; and every
\* other handler that sets it, the 'open' of a Peer first, sets it to at
\* least 1.
C23_CountFloor ==
  /\ \A p \in Procs : connectionCount[p] = 0
  /\ [][\A p \in Procs :
          /\ (RanDisconnect(last') /\ last'.p = p) => connectionCount'[p] = 0
          /\ (last'.op = "peerOpen" /\ last'.p = p) => connectionCount'[p] = 1
          /\ connectionCount'[p] # connectionCount[p] =>
               \/ connectionCount'[p] >= 1
               \/ connectionCount'[p] = 0 /\ RanDisconnect(last') /\ last'.p = p
       ]_vars

\* disconnect() took down a session that had an open connection, and left
\* the count at 0.
C23_Witness ==
  /\ last.op = "disconnect"
  /\ \E i \in 1..Len(last.ev) : last.ev[i].k = "close"
  /\ connectionCount[last.p] = 0
  /\ maxConnectionCount[last.p] = 0

\* C24: once a Host has its room and while no joiner connects, the count and
\* its maximum are 1 and the registry is empty in every state; a sweep tick
\* closes nothing, recounts nothing and sends nothing; a heartbeat tick sends
\* nothing; and nothing is in flight.
C24_SoloHost ==
  RoomExists =>
    /\ connectionCount[Host] = 1
    /\ maxConnectionCount[Host] = 1
    /\ connections[Host] = <<>>
    /\ (last.op \in {"sweep", "heartbeat"} /\ last.p = Host) => last.ev = <<>>
    /\ conns = <<>>

\* The sweep of the solo Host ran more than CONNECTION_TIMEOUT after the room
\* was created.
C24_Witness ==
  /\ last.op = "sweep"
  /\ last.p = Host
  /\ RoomExists
  /\ now > CONNECTION_TIMEOUT
  /\ used.beats = MaxBeats
  /\ connectionCount[Host] = 1

\* C25: at a Host, a sweep tick closes and removes every record with
\* now - lastSeen > CONNECTION_TIMEOUT, then sets the count to the new registry
\* size plus 1 and sends it on every remaining open connection; and with the
\* sweep running once per interval no record is ever older than
\* CONNECTION_TIMEOUT + HEARTBEAT_INTERVAL.
C25_BoundedEviction ==
  /\ [](Hosting(Host) =>
         \A i \in 1..Len(connections[Host]) :
           now - connections[Host][i].lastSeen <= CONNECTION_TIMEOUT + HEARTBEAT_INTERVAL)
  /\ [][(last'.op = "sweep" /\ last'.p = Host) =>
         LET stale == {i \in 1..Len(connections[Host]) :
                         now - connections[Host][i].lastSeen > CONNECTION_TIMEOUT}
             n == Len(connections'[Host]) + 1
         IN /\ \A i \in stale :
                 /\ ConnSt([conns |-> conns'], connections[Host][i].connection) = "closed"
                 /\ ~RegHas(connections'[Host], connections[Host][i].peerId)
            /\ stale # {} =>
                 /\ connectionCount'[Host] = n
                 /\ \A k \in 1..Len(connections'[Host]) :
                      LET ref == connections'[Host][k].connection
                      IN ConnSt([conns |-> conns'], ref) = "open" =>
                           SendsOn(last'.ev, ref, ConnCount(n)) >= 1
       ]_vars

\* A sweep on schedule evicted one joiner of two and sent the other one the
\* new count 2.
C25_Witness ==
  /\ last.op = "sweep"
  /\ last.p = Host
  /\ Hosting(Host)
  /\ \E i \in 1..Len(last.ev) : last.ev[i].k = "close"
  /\ now = CONNECTION_TIMEOUT + HEARTBEAT_INTERVAL
  /\ connectionCount[Host] = 2
  /\ \E ref \in OpenRecords(Host) : SendsOn(last.ev, ref, ConnCount(2)) >= 1

\* The connections the registry of p points to.
Registered(reg) == {reg[i].connection : i \in 1..Len(reg)}

\* C26: at the Host, an inbound connection that opens gets a record pointing
\* to it, and neither the opening of another connection nor the close or
\* error event of another connection takes away the record of a connection
\* that is still open.
C26_TracksByConnection ==
  [][(/\ last'.p = Host
      /\ last'.ref[2] = "i"
      /\ last'.op \in {"connOpen", "connClose", "connError"}) =>
       /\ last'.op = "connOpen" => last'.ref \in Registered(connections'[Host])
       /\ \A ref \in Registered(connections[Host]) \ {last'.ref} :
            ConnSt([conns |-> conns'], ref) = "open"
              => ref \in Registered(connections'[Host])
    ]_vars

\* C27: when init() has started a new session while the delayed disconnect of
\* deleteRoom() was pending, and the delay then fires, the Peer of the new
\* session is still the service's Peer and is not destroyed, and the role
\* init() chose is kept.
C27_DelayedDisconnectScoped ==
  [][(/\ last.op = "init"
      /\ timeouts[last.p] > 0
      /\ last'.op = "deleteRoomTimeout"
      /\ last'.p = last.p) =>
       LET p == last.p
       IN /\ peer'[p] = peer[p]
          /\ peers'[peer[p]].st = peers[peer[p]].st
          /\ isHost'[p] = isHost[p]
    ]_vars

\* The interval timers of kind k that process p has running.
Running(p, k) == {t \in timers : peers[t[1]].owner = p /\ t[2] = k}

\* C28: every process has at most one heartbeat timer and at most one sweep
\* timer running, a sweep timer only while its role is Host; and when
\* disconnect() has returned, no timer of the process is running.
C28_NoTimerLeak ==
  /\ [](\A p \in Procs :
          /\ Cardinality(Running(p, "heartbeat")) <= 1
          /\ Cardinality(Running(p, "sweep")) <= 1
          /\ Running(p, "sweep") # {} => isHost[p])
  /\ [][RanDisconnect(last') =>
         {t \in timers' : peers'[t[1]].owner = last'.p} = {}]_vars

\* C29: a Joiner that receives ROOM_DELETED invokes the room-deleted callback
\* exactly once in that handler, the disconnect() that follows included; and a
\* Joiner that calls disconnect() itself does not invoke it.
C29_RoomDeletedOnce ==
  [][/\ (last'.op = "data" /\ last'.msg = RoomDeleted /\ ~isHost[last'.p])
          => RoomDeletedCount(last'.ev) = 1
     /\ (last'.op = "disconnect" /\ ~isHost[last'.p])
          => RoomDeletedCount(last'.ev) = 0
    ]_vars

====
